---------------------------- MODULE Spec2Model ----------------------------
(***************************************************************************)
(* Model of the superpixel hash index of SLICHashTable.hpp and of the      *)
(* retrieval loop of Demo.cpp (src/unnamed/part_001).                      *)
(*                                                                         *)
(*   - calculate_hash_key : the quantizer of a HashKey record              *)
(*   - Hash               : one aggregation pass over a label grid, which  *)
(*                          appends finished records to hashTable          *)
(*   - main               : the query-side aggregation pass, the voting    *)
(*                          loop over match_counts and the max scan        *)
(*                                                                         *)
(* Specifications.  Spec: Hash calls and retrievals on small grids.        *)
(* SpecAgg: one aggregation pass on larger grids.  SpecKey:                *)
(* calculate_hash_key on records of any content.  SpecTwice: a caller that *)
(* repeats a Hash call.  SpecSelf: main hashing one image with the counts  *)
(* it computes and querying with the same grids.  SpecAnyLabels: Hash on   *)
(* label grids with labels outside the regions.                            *)
(*                                                                         *)
(* Arithmetic.  calculate_hash_key works in float (IEEE single precision,    *)
(* round to nearest, ties to even).  ToFloat is the conversion of an        *)
(* integer to float, FloatQuotient the float quotient of two integers       *)
(* converted to int; both are computed exactly, in integers, for            *)
(* |n| < 2^30 and quotients below 2^23, which covers every record an        *)
(* aggregation pass can build (averages are at most 255).                   *)
(***************************************************************************)
EXTENDS Integers, Sequences, FiniteSets, TLC

VARIABLES
    pc,                     \* position of the program
    hashTable,              \* SLICHashTable::hashTable : key -> sequence of HashKey
    hash_calls,             \* number of Hash calls made so far
    table_before,           \* history: hashTable when the running call began
    input_image,            \* Hash: identity (address) of the image being hashed
    image,                  \* colour grid of the current pass (input_image / query_image)
    labels,                 \* label grid of the current pass (labels / query_labels)
    superpixel_count,       \* superpixel_count / query_superpixel_count
    pixel_count,            \* Hash: the expected pixel count per superpixel
    superpixels,            \* superpixels / query_superpixels : array of HashKey
    row, col,               \* loop position of the aggregation pass
    i,                      \* main: index of the voting loop
    match_counts,           \* main: std::map image -> votes
    best_match_image_ptr,   \* main: result of the max scan
    max_matches,            \* main: running maximum of the max scan
    key_arg,                \* calculate_hash_key called on its own: the argument
    key_ret,                \* calculate_hash_key called on its own: the result
    kept                    \* the caller: the arguments of a Hash call that it
                            \* keeps to use again, and history: the table when
                            \* the call began (before) and, for a call it has
                            \* repeated, when the repetition began (once)

vars == << pc, hashTable, hash_calls, table_before, input_image, image, labels, superpixel_count,
           pixel_count, superpixels, row, col, i, match_counts,
           best_match_image_ptr, max_matches, key_arg, key_ret, kept >>

---------------------------------------------------------------------------
(* Bounds of the model *)

\* most Hash calls in one run
MaxHashCalls == 2
\* most Hash calls in a run that hashes an image twice
TwiceCalls == 3
\* the grid of the end-to-end scenario: 4 x 4 cells in two halves
ScenarioRows == 4
ScenarioCols == 4
\* database images (database_images[0 .. MaxImages-1])
MaxImages == 2
\* largest grid and most superpixels of the retrieval specification
MaxRows == 1
MaxCols == 2
MaxSuperpixels == 2
\* largest grid and most superpixels of the aggregation specification
AggRows == 2
AggCols == 2
AggSuperpixels == 2

---------------------------------------------------------------------------
(* Constants of SLICHashTable *)

lab_buckets == 16
lab_bucket_size == 256 \div lab_buckets
max_img_w == 3840
max_img_h == 2160
x_buckets == 10
y_buckets == 10
x_bucket_size == max_img_w \div x_buckets
y_bucket_size == max_img_h \div y_buckets
dims == << lab_buckets, lab_buckets, lab_buckets, x_buckets, y_buckets >>

\* the key of a record without pixels
NoKey == -1
\* nullptr, the original_image of a calloc'ed record and the empty result
nullptr == -1

---------------------------------------------------------------------------
(* calculate_hash_key *)

Max(a, b) == IF a >= b THEN a ELSE b
Min(a, b) == IF a <= b THEN a ELSE b

Pow2(e) == 2 ^ e

\* the exponent of n >= 1: the e with 2^e <= n < 2^(e+1)
RECURSIVE Log2(_)
Log2(n) == IF n < 2 THEN 0 ELSE 1 + Log2(n \div 2)

\* (float)n: n itself below 2^24, and above it the nearest multiple of the
\* spacing 2^(e-23) of its binade, a tie going to the even mantissa
ToFloat(n) ==
    LET a == IF n >= 0 THEN n ELSE -n
        step == Pow2(Log2(a) - 23)
        down == a - (a % step)
        near == IF 2 * (a % step) < step THEN down
                ELSE IF 2 * (a % step) > step THEN down + step
                ELSE IF (down \div step) % 2 = 0 THEN down ELSE down + step
    IN  IF a < 16777216 THEN n
        ELSE IF n >= 0 THEN near ELSE -near

\* (int)(float quotient of num by den), den > 0: the float nearest to num / den,
\* truncated toward zero.  The float reaches the integer q + 1 above the exact
\* quotient q when num / den is at most half a float spacing below q + 1.
RECURSIVE FloatQuotient(_, _)
FloatQuotient(num, den) ==
    IF num < 0 THEN -FloatQuotient(-num, den)
    ELSE LET q == num \div den
             r == num % den
             e == Log2(q + 1)
             s == IF q + 1 = Pow2(e) THEN 25 - e ELSE 24 - e
         IN  IF r > 0 /\ den - r <= den \div Pow2(s) THEN q + 1 ELSE q

\* (int)(((float)tot / count) / size): dividing a float by the power of two
\* `size` is exact, so this is the float quotient of tot by count * size
AvgBucket(tot, count, size) == FloatQuotient(ToFloat(tot), ToFloat(count) * size)

\* (int)(((first + second) / 2.0f) / size): halving is exact
CenterBucket(range, size) == FloatQuotient(ToFloat(range[1] + range[2]), 2 * size)

\* a faulty clamp that forgets the upper end
ClampNoUpper(bucket, d) == Max(0, bucket)

\* std::max(0, std::min(bucket, dims[d] - 1))
Clamp(bucket, d) == Max(0, Min(bucket, dims[d] - 1))

\* a faulty combination that multiplies by the radix of the axis before
CombineShiftedRadix(l_bucket, a_bucket, b_bucket, x_bucket, y_bucket) ==
    LET h0 == l_bucket
        h1 == h0 * dims[1] + a_bucket
        h2 == h1 * dims[2] + b_bucket
        h3 == h2 * dims[3] + x_bucket
        h4 == h3 * dims[4] + y_bucket
    IN  h4

\* a faulty combination that multiplies by the radix of the last axis throughout
CombineLastRadix(l_bucket, a_bucket, b_bucket, x_bucket, y_bucket) ==
    LET h0 == l_bucket
        h1 == h0 * dims[5] + a_bucket
        h2 == h1 * dims[5] + b_bucket
        h3 == h2 * dims[5] + x_bucket
        h4 == h3 * dims[5] + y_bucket
    IN  h4

\* hash_key = l_bucket; hash_key = hash_key * dims[k] + next, k = 1..4 (0-based)
Combine(l_bucket, a_bucket, b_bucket, x_bucket, y_bucket) ==
    LET h0 == l_bucket
        h1 == h0 * dims[2] + a_bucket
        h2 == h1 * dims[3] + b_bucket
        h3 == h2 * dims[4] + x_bucket
        h4 == h3 * dims[5] + y_bucket
    IN  h4

calculate_hash_key(key) ==
    IF key.pixel_count = 0 THEN NoKey
    ELSE LET l_bucket == Clamp(AvgBucket(key.l_tot, key.pixel_count, lab_bucket_size), 1)
             a_bucket == Clamp(AvgBucket(key.a_tot, key.pixel_count, lab_bucket_size), 2)
             b_bucket == Clamp(AvgBucket(key.b_tot, key.pixel_count, lab_bucket_size), 3)
             x_bucket == Clamp(CenterBucket(key.x_range, x_bucket_size), 4)
             y_bucket == Clamp(CenterBucket(key.y_range, y_bucket_size), 5)
         IN  Combine(l_bucket, a_bucket, b_bucket, x_bucket, y_bucket)

---------------------------------------------------------------------------
(* Data *)

\* a calloc'ed HashKey
ZeroKey ==
    [ l_tot |-> 0, a_tot |-> 0, b_tot |-> 0,
      x_range |-> << 0, 0 >>, y_range |-> << 0, 0 >>,
      original_image |-> nullptr, pixel_count |-> 0 ]

\* cv::Mat: rows, cols and the cells, read as m.at[<<row, col>>]
Cells(rows, cols) == (0 .. rows - 1) \X (0 .. cols - 1)
NoMat == [ rows |-> 0, cols |-> 0, at |-> [ p \in {} |-> 0 ] ]
Mats(rows, cols, values) ==
    { [ rows |-> rows, cols |-> cols, at |-> f ] : f \in [ Cells(rows, cols) -> values ] }

\* the cv::Vec3b samples the images are made of
Colors == { << 10, 10, 10 >>, << 200, 200, 200 >>, << 10, 200, 40 >> }

\* addresses: &database_images[k] is k, in the order of the vector; &query_image
\* is a local of main and no element of database_images
DatabaseImages == 0 .. MaxImages - 1
QueryImage == MaxImages

NoArray == [ p \in {} |-> 0 ]
NoTable == [ k \in {} |-> << >> ]
NoCounts == [ k \in {} |-> 0 ]
\* the caller has kept no arguments
NoKept == [ img |-> nullptr ]

---------------------------------------------------------------------------
(* The aggregation of one cell: Hash lines 85-104, main lines 273-291 *)

\* a faulty update that counts the pixel only in the else branch
UpdateHashKeyCountInElse(curr, lab_pixel, r, c, img) ==
    [ l_tot |-> curr.l_tot + lab_pixel[1],
      a_tot |-> curr.a_tot + lab_pixel[2],
      b_tot |-> curr.b_tot + lab_pixel[3],
      x_range |-> IF curr.pixel_count = 0 THEN << c, c >>
                  ELSE << Min(curr.x_range[1], c), Max(curr.x_range[2], c) >>,
      y_range |-> IF curr.pixel_count = 0 THEN << r, r >>
                  ELSE << Min(curr.y_range[1], r), Max(curr.y_range[2], r) >>,
      original_image |-> IF curr.pixel_count = 0 THEN img ELSE curr.original_image,
      pixel_count |-> IF curr.pixel_count = 0 THEN 0 ELSE curr.pixel_count + 1 ]

\* a faulty extent that compares the upper ends the wrong way round
SpatialExtentSwappedTest(curr, r, c) ==
    IF curr.pixel_count = 0
    THEN [ x_range |-> << c, c >>, y_range |-> << r, r >> ]
    ELSE [ x_range |-> << IF curr.x_range[1] > c THEN c ELSE curr.x_range[1],
                          IF curr.x_range[2] > c THEN c ELSE curr.x_range[2] >>,
           y_range |-> << IF curr.y_range[1] > r THEN r ELSE curr.y_range[1],
                          IF curr.y_range[2] < r THEN r ELSE curr.y_range[2] >> ]

\* the spatial extent after the pixel (r, c)
SpatialExtent(curr, r, c) ==
    IF curr.pixel_count = 0
    THEN [ x_range |-> << c, c >>, y_range |-> << r, r >> ]
    ELSE [ x_range |-> << IF curr.x_range[1] > c THEN c ELSE curr.x_range[1],
                          IF curr.x_range[2] < c THEN c ELSE curr.x_range[2] >>,
           y_range |-> << IF curr.y_range[1] > r THEN r ELSE curr.y_range[1],
                          IF curr.y_range[2] < r THEN r ELSE curr.y_range[2] >> ]

\* curr after the pixel (r, c) of colour lab_pixel of the image img
UpdateHashKey(curr, lab_pixel, r, c, img) ==
    LET extent == SpatialExtent(curr, r, c)
    IN  [ l_tot |-> curr.l_tot + lab_pixel[1],
          a_tot |-> curr.a_tot + lab_pixel[2],
          b_tot |-> curr.b_tot + lab_pixel[3],
          x_range |-> extent.x_range,
          y_range |-> extent.y_range,
          original_image |-> IF curr.pixel_count = 0 THEN img ELSE curr.original_image,
          pixel_count |-> curr.pixel_count + 1 ]

\* the loop position after the cell (r, c): col++, then row++
NextRow(m, r, c) == IF c + 1 < m.cols THEN r ELSE r + 1
NextCol(m, r, c) == IF c + 1 < m.cols THEN c + 1 ELSE 0

---------------------------------------------------------------------------
(* hashTable *)

\* hashTable.count(key)
Count(table, key) == IF key \in DOMAIN table THEN 1 ELSE 0

\* hashTable[key]: operator[] adds an empty bucket for a key it does not hold
Subscript(table, key) ==
    IF key \in DOMAIN table THEN table
    ELSE [ k \in DOMAIN table \cup { key } |-> IF k = key THEN << >> ELSE table[k] ]

\* a faulty push_back that appends a value-initialised HashKey (emplace_back())
PushBackDefault(table, key, curr) ==
    LET t == Subscript(table, key)
    IN  [ t EXCEPT ![key] = Append(@, ZeroKey) ]

\* a faulty push_back that leaves out a record the bucket already holds
PushBackUnique(table, key, curr) ==
    LET t == Subscript(table, key)
    IN  IF \E j \in 1 .. Len(t[key]) : t[key][j] = curr THEN t
        ELSE [ t EXCEPT ![key] = Append(@, curr) ]

\* hashTable[key].push_back(curr)
PushBack(table, key, curr) ==
    LET t == Subscript(table, key)
    IN  [ t EXCEPT ![key] = Append(@, curr) ]

\* a faulty test that takes the key 0 for the key of a record without pixels
InsertFinishedNonZero(table, curr) ==
    LET key == calculate_hash_key(curr)
    IN  IF key # 0 THEN PushBack(table, key, curr) ELSE table

\* a faulty test that also holds once the count is past the expected count
FinishedOrPast(curr, expected) == curr.pixel_count >= expected

\* Hash line 106: curr.pixel_count == pixel_count[sp]
Finished(curr, expected) == curr.pixel_count = expected

\* Hash lines 107-110: key = calculate_hash_key(curr); if (key != -1) push_back
InsertFinished(table, curr) ==
    LET key == calculate_hash_key(curr)
    IN  IF key # NoKey THEN PushBack(table, key, curr) ELSE table

---------------------------------------------------------------------------
(* The voting loop and the max scan of main *)

\* a faulty tally that gives one vote per query region: to the first match only
TallyFirstOnly(counts, matches) ==
    IF matches = << >> THEN counts
    ELSE LET img == matches[1].original_image
         IN  [ k \in DOMAIN counts \cup { img } |->
                 IF k = img THEN (IF k \in DOMAIN counts THEN counts[k] ELSE 0) + 1
                 ELSE counts[k] ]

\* for (match : matches) match_counts[match.original_image]++
RECURSIVE Tally(_, _)
Tally(counts, matches) ==
    IF matches = << >> THEN counts
    ELSE LET img == Head(matches).original_image
             next == [ k \in DOMAIN counts \cup { img } |->
                         IF k = img THEN (IF k \in DOMAIN counts THEN counts[k] ELSE 0) + 1
                         ELSE counts[k] ]
         IN  Tally(next, Tail(matches))

\* a faulty lookup that subscripts the table without asking count() first
LookupUnguarded(table, query_key) ==
    [ table |-> Subscript(table, query_key),
      matches |-> Subscript(table, query_key)[query_key] ]

\* if (hashTable.count(query_key)) matches = hashTable[query_key]: the table
\* after the statement and the records iterated
Lookup(table, query_key) ==
    IF Count(table, query_key) # 0
    THEN [ table |-> Subscript(table, query_key),
           matches |-> Subscript(table, query_key)[query_key] ]
    ELSE [ table |-> table, matches |-> << >> ]

\* a faulty test that also accepts a candidate equal to the maximum
BetterOrEqual(count, max) == count >= max

\* pair.second > max_matches
Better(count, max) == count > max

\* a faulty scan step that forgets max_matches = pair.second
ScanEntryKeepMax(acc, ptr, count) ==
    IF Better(count, acc.max_matches)
    THEN [ best_match_image_ptr |-> ptr, max_matches |-> acc.max_matches ]
    ELSE acc

\* one entry of the max scan
ScanEntry(acc, ptr, count) ==
    IF Better(count, acc.max_matches)
    THEN [ best_match_image_ptr |-> ptr, max_matches |-> count ]
    ELSE acc

\* for (pair : match_counts), a std::map: in ascending order of the keys
RECURSIVE Scan(_, _, _)
Scan(counts, todo, acc) ==
    IF todo = {} THEN acc
    ELSE LET first == CHOOSE p \in todo : \A q \in todo : p <= q
         IN  Scan(counts, todo \ { first }, ScanEntry(acc, first, counts[first]))

\* a faulty start of the scan that asks for more than one vote
ScanStartOne == [ best_match_image_ptr |-> nullptr, max_matches |-> 1 ]

\* best_match_image_ptr = nullptr; max_matches = 0
ScanStart == [ best_match_image_ptr |-> nullptr, max_matches |-> 0 ]

---------------------------------------------------------------------------
(* Initial state: an empty table, main between two calls *)

Init ==
    /\ pc = "idle"
    /\ hashTable = NoTable
    /\ hash_calls = 0
    /\ table_before = NoTable
    /\ input_image = nullptr
    /\ image = NoMat
    /\ labels = NoMat
    /\ superpixel_count = 0
    /\ pixel_count = NoArray
    /\ superpixels = NoArray
    /\ row = 0
    /\ col = 0
    /\ i = 0
    /\ match_counts = NoCounts
    /\ best_match_image_ptr = nullptr
    /\ max_matches = 0
    /\ key_arg = ZeroKey
    /\ key_ret = NoKey
    /\ kept = NoKept

queryVars == << i, match_counts, best_match_image_ptr, max_matches >>
keyVars == << key_arg, key_ret >>

---------------------------------------------------------------------------
(* SLICHashTable::Hash *)

\* the entry of a call with the arguments given: calloc of superpixels, row = 0
HashCall(img, im, lab, n, expected) ==
    /\ input_image' = img
    /\ image' = im
    /\ labels' = lab
    /\ superpixel_count' = n
    /\ pixel_count' = expected
    /\ superpixels' = [ sp \in 0 .. n - 1 |-> ZeroKey ]
    /\ row' = 0
    /\ col' = 0
    /\ hash_calls' = hash_calls + 1
    /\ table_before' = hashTable
    /\ pc' = "hash"
    /\ UNCHANGED << hashTable, queryVars, keyVars >>

\* the call: any image of the database, any label grid of at most R x C cells
\* with labels below the superpixel count, any expected counts
HashBegin(H, R, C, N) ==
    /\ pc = "idle"
    /\ hash_calls < H
    /\ \E img \in DatabaseImages, rows \in 1 .. R, cols \in 1 .. C, n \in 1 .. N :
         \E lab \in Mats(rows, cols, 0 .. n - 1), im \in Mats(rows, cols, Colors),
            expected \in [ 0 .. n - 1 -> 0 .. rows * cols ] :
           HashCall(img, im, lab, n, expected)
    /\ UNCHANGED kept

\* the call with a label grid that Hash does not validate: labels from one
\* below the first region to one above the last
HashBeginAnyLabels(H, R, C, N) ==
    /\ pc = "idle"
    /\ hash_calls < H
    /\ \E img \in DatabaseImages, rows \in 1 .. R, cols \in 1 .. C, n \in 1 .. N :
         \E lab \in Mats(rows, cols, -1 .. n), im \in Mats(rows, cols, Colors),
            expected \in [ 0 .. n - 1 -> 0 .. rows * cols ] :
           HashCall(img, im, lab, n, expected)
    /\ UNCHANGED kept

\* main lines 194-201: the pixels of each superpixel, counted from the labels
CountPixels(lab, n) ==
    [ sp \in 0 .. n - 1 |->
        Cardinality({ cell \in Cells(lab.rows, lab.cols) : lab.at[cell] = sp }) ]

\* the label grids of the scenario: the upper and the lower half, the left and
\* the right half, or one region only
ScenarioLabels ==
    { [ rows |-> ScenarioRows, cols |-> ScenarioCols,
        at |-> [ cell \in Cells(ScenarioRows, ScenarioCols) |->
                   IF half = "rows" THEN (IF 2 * cell[1] < ScenarioRows THEN 0 ELSE 1)
                   ELSE IF half = "cols" THEN (IF 2 * cell[2] < ScenarioCols THEN 0 ELSE 1)
                   ELSE 0 ] ] : half \in { "rows", "cols", "none" } }

\* an image whose regions are uniform: the colour of a cell is that of its label
Uniform(lab, colors) ==
    [ rows |-> lab.rows, cols |-> lab.cols,
      at |-> [ cell \in Cells(lab.rows, lab.cols) |-> colors[lab.at[cell]] ] ]

\* the images main hashes here: any grid of at most R x C cells with any
\* colours, and the scenario's grids with two regions of uniform colours
MainInputs(R, C, N) ==
    UNION { { [ labels |-> lab, image |-> im, superpixel_count |-> n ] :
                lab \in Mats(rows, cols, 0 .. n - 1), im \in Mats(rows, cols, Colors) } :
            << rows, cols, n >> \in (1 .. R) \X (1 .. C) \X (1 .. N) }
      \cup { [ labels |-> lab, image |-> Uniform(lab, colors), superpixel_count |-> 2 ] :
                lab \in ScenarioLabels, colors \in [ 0 .. 1 -> Colors ] }

\* the call as main makes it (line 204): the expected counts are the counts of
\* lines 194-201; the caller keeps the image and its labels
HashFromMain(H, R, C, N) ==
    /\ pc = "idle"
    /\ hash_calls < H
    /\ \E img \in DatabaseImages, in \in MainInputs(R, C, N) :
         /\ HashCall(img, in.image, in.labels, in.superpixel_count,
                     CountPixels(in.labels, in.superpixel_count))
         /\ kept' = [ img |-> img, image |-> in.image, labels |-> in.labels,
                      superpixel_count |-> in.superpixel_count,
                      again |-> FALSE, before |-> hashTable, once |-> hashTable ]

\* a caller that passes the same arguments again: the return of the call that
\* has finished its loops and the entry of the next
HashAgain(H) ==
    /\ pc = "hash"
    /\ row = labels.rows
    /\ kept = NoKept
    /\ hash_calls < H
    /\ HashCall(input_image, image, labels, superpixel_count, pixel_count)
    /\ kept' = [ img |-> input_image, image |-> image, labels |-> labels,
                  superpixel_count |-> superpixel_count,
                  again |-> TRUE, before |-> table_before, once |-> hashTable ]

\* superpixels[sp] and pixel_count[sp] for a label outside the arrays are reads
\* and writes outside the calloc'ed blocks, with no defined behaviour: the
\* process stops at the access, or goes on with whatever the memory holds and
\* finds the count test false, or finds it true for one of these records
Garbage ==
    { [ ZeroKey EXCEPT !.l_tot = 10, !.a_tot = 10, !.b_tot = 10, !.pixel_count = 1 ],
      [ ZeroKey EXCEPT !.l_tot = 200, !.a_tot = 200, !.b_tot = 200, !.pixel_count = 1,
                       !.original_image = 0 ] }
OutOfBounds ==
    { [ kind |-> "stop", curr |-> ZeroKey ], [ kind |-> "skip", curr |-> ZeroKey ] }
        \cup { [ kind |-> "push", curr |-> g ] : g \in Garbage }

\* the body of the loops for one cell
HashCell ==
    /\ pc = "hash"
    /\ row < labels.rows
    /\ LET lab_pixel == image.at[<< row, col >>]
           sp == labels.at[<< row, col >>]
       IN  IF sp \in DOMAIN superpixels
           THEN LET curr == UpdateHashKey(superpixels[sp], lab_pixel, row, col, input_image)
                IN  /\ superpixels' = [ superpixels EXCEPT ![sp] = curr ]
                    /\ hashTable' = IF Finished(curr, pixel_count[sp])
                                    THEN InsertFinished(hashTable, curr)
                                    ELSE hashTable
                    /\ row' = NextRow(labels, row, col)
                    /\ col' = NextCol(labels, row, col)
                    /\ pc' = pc
           ELSE \E outcome \in OutOfBounds :
                    /\ superpixels' = superpixels
                    /\ hashTable' = IF outcome.kind = "push"
                                    THEN InsertFinished(hashTable, outcome.curr)
                                    ELSE hashTable
                    /\ row' = IF outcome.kind = "stop" THEN row
                              ELSE NextRow(labels, row, col)
                    /\ col' = IF outcome.kind = "stop" THEN col
                              ELSE NextCol(labels, row, col)
                    /\ pc' = IF outcome.kind = "stop" THEN "stopped" ELSE pc
    /\ UNCHANGED << hash_calls, table_before, input_image, image, labels,
                    superpixel_count, pixel_count, queryVars, keyVars, kept >>

\* free(superpixels) and the return
HashEnd ==
    /\ pc = "hash"
    /\ row = labels.rows
    /\ pc' = "idle"
    /\ input_image' = nullptr
    /\ image' = NoMat
    /\ labels' = NoMat
    /\ superpixel_count' = 0
    /\ pixel_count' = NoArray
    /\ superpixels' = NoArray
    /\ row' = 0
    /\ col' = 0
    /\ table_before' = hashTable
    /\ UNCHANGED << hashTable, hash_calls, queryVars, keyVars, kept >>

---------------------------------------------------------------------------
(* main: one retrieval *)

\* the query image and its label grid; query_superpixels is calloc'ed
QueryBegin(R, C, N) ==
    /\ pc = "idle"
    /\ \E rows \in 1 .. R, cols \in 1 .. C, n \in 1 .. N :
         \E lab \in Mats(rows, cols, 0 .. n - 1), im \in Mats(rows, cols, Colors) :
           /\ image' = im
           /\ labels' = lab
           /\ superpixel_count' = n
           /\ superpixels' = [ sp \in 0 .. n - 1 |-> ZeroKey ]
    /\ input_image' = QueryImage
    /\ row' = 0
    /\ col' = 0
    /\ pc' = "query"
    /\ table_before' = hashTable
    /\ UNCHANGED << hashTable, hash_calls, pixel_count, queryVars, keyVars, kept >>

\* the query that repeats the image hashed twice: the same label grid and the
\* same colours, in a Mat of its own
QuerySelf ==
    /\ pc = "idle"
    /\ kept # NoKept
    /\ image' = kept.image
    /\ labels' = kept.labels
    /\ superpixel_count' = kept.superpixel_count
    /\ superpixels' = [ sp \in 0 .. kept.superpixel_count - 1 |-> ZeroKey ]
    /\ input_image' = QueryImage
    /\ row' = 0
    /\ col' = 0
    /\ pc' = "query"
    /\ table_before' = hashTable
    /\ UNCHANGED << hashTable, hash_calls, pixel_count, queryVars, keyVars, kept >>

\* the body of the loops that build the query records, for one cell
QueryCell ==
    /\ pc = "query"
    /\ row < labels.rows
    /\ LET lab_pixel == image.at[<< row, col >>]
           sp == labels.at[<< row, col >>]
           curr == UpdateHashKey(superpixels[sp], lab_pixel, row, col, input_image)
       IN  superpixels' = [ superpixels EXCEPT ![sp] = curr ]
    /\ row' = NextRow(labels, row, col)
    /\ col' = NextCol(labels, row, col)
    /\ UNCHANGED << pc, hashTable, hash_calls, table_before, input_image, image,
                    labels, superpixel_count, pixel_count, queryVars, keyVars, kept >>

\* the end of the aggregation: match_counts is declared empty, i = 0
VoteBegin ==
    /\ pc = "query"
    /\ row = labels.rows
    /\ pc' = "vote"
    /\ i' = 0
    /\ match_counts' = NoCounts
    /\ UNCHANGED << hashTable, hash_calls, table_before, input_image, image, labels,
                    superpixel_count, pixel_count, superpixels, row, col,
                    best_match_image_ptr, max_matches, keyVars, kept >>

\* the body of the voting loop for the query record i
Vote ==
    /\ pc = "vote"
    /\ i < superpixel_count
    /\ LET query_key == calculate_hash_key(superpixels[i])
       IN  IF query_key = NoKey
           THEN UNCHANGED << hashTable, match_counts >>
           ELSE LET found == Lookup(hashTable, query_key)
                IN  /\ hashTable' = found.table
                    /\ match_counts' = Tally(match_counts, found.matches)
    /\ i' = i + 1
    /\ UNCHANGED << pc, hash_calls, table_before, input_image, image, labels,
                    superpixel_count, pixel_count, superpixels, row, col,
                    best_match_image_ptr, max_matches, keyVars, kept >>

\* the max scan over match_counts
Select ==
    /\ pc = "vote"
    /\ i = superpixel_count
    /\ LET found == Scan(match_counts, DOMAIN match_counts, ScanStart)
       IN  /\ best_match_image_ptr' = found.best_match_image_ptr
           /\ max_matches' = found.max_matches
    /\ pc' = "report"
    /\ UNCHANGED << hashTable, hash_calls, table_before, input_image, image, labels,
                    superpixel_count, pixel_count, superpixels, row, col, i,
                    match_counts, keyVars, kept >>

\* the display of the result, the frees and the end of the iteration
Report ==
    /\ pc = "report"
    /\ pc' = "idle"
    /\ input_image' = nullptr
    /\ image' = NoMat
    /\ labels' = NoMat
    /\ superpixel_count' = 0
    /\ superpixels' = NoArray
    /\ row' = 0
    /\ col' = 0
    /\ i' = 0
    /\ match_counts' = NoCounts
    /\ best_match_image_ptr' = nullptr
    /\ max_matches' = 0
    /\ table_before' = hashTable
    /\ UNCHANGED << hashTable, hash_calls, pixel_count, keyVars, kept >>

Next ==
    \/ HashBegin(MaxHashCalls, MaxRows, MaxCols, MaxSuperpixels)
    \/ HashCell
    \/ HashEnd
    \/ QueryBegin(MaxRows, MaxCols, MaxSuperpixels)
    \/ QueryCell
    \/ VoteBegin
    \/ Vote
    \/ Select
    \/ Report

Spec == Init /\ [][Next]_vars

---------------------------------------------------------------------------
(* One aggregation pass on larger grids: a Hash call on the empty table up  *)
(* to the end of its loops, or the query-side loops of main                 *)

NextAgg ==
    \/ HashBegin(1, AggRows, AggCols, AggSuperpixels)
    \/ HashCell
    \/ QueryBegin(AggRows, AggCols, AggSuperpixels)
    \/ QueryCell

SpecAgg == Init /\ [][NextAgg]_vars

---------------------------------------------------------------------------
(* A caller that hashes an image, hashes one image twice in a row and then   *)
(* queries with the grids of the image hashed twice                          *)

NextTwice ==
    \/ HashBegin(TwiceCalls - 1, MaxRows, MaxCols, MaxSuperpixels)
    \/ HashCell
    \/ HashEnd
    \/ HashAgain(TwiceCalls)
    \/ QuerySelf
    \/ QueryCell
    \/ VoteBegin
    \/ Vote
    \/ Select
    \/ Report

SpecTwice == Init /\ [][NextTwice]_vars

---------------------------------------------------------------------------
(* main with one image: the image is hashed with its counted pixels and then *)
(* queried with its own grids                                                *)

NextSelf ==
    \/ HashFromMain(1, AggRows, AggCols, AggSuperpixels)
    \/ HashCell
    \/ HashEnd
    \/ QuerySelf
    \/ QueryCell
    \/ VoteBegin
    \/ Vote
    \/ Select
    \/ Report

SpecSelf == Init /\ [][NextSelf]_vars

---------------------------------------------------------------------------
(* Hash calls on label grids with labels outside the regions *)

NextAnyLabels ==
    \/ HashBeginAnyLabels(MaxHashCalls, MaxRows, MaxCols, MaxSuperpixels)
    \/ HashCell
    \/ HashEnd

SpecAnyLabels == Init /\ [][NextAnyLabels]_vars

---------------------------------------------------------------------------
(* calculate_hash_key on its own, on records of any content *)

\* sums and counts: below, on and above the ends of the buckets, negative, far
\* above the last bucket, and a region of 2^20 + 1 pixels that are all 16 but
\* for one 15
SumValues == { -40, 15, 32, 255, 9000, 16777231 }
PixelCounts == { 0, 1, 2, 1048577 }
XValues == { -5, 383, 384, 3839, 9000 }
YValues == { 0, 215, 216, 3000 }

KeyInputs ==
    [ l_tot : SumValues, a_tot : SumValues, b_tot : SumValues,
      x_range : XValues \X XValues, y_range : YValues \X YValues,
      original_image : { nullptr }, pixel_count : PixelCounts ]

\* one record of one pixel for every tuple of buckets: the first value of each
\* bucket on each axis
TupleInputs ==
    [ l_tot : { lab_bucket_size * c : c \in 0 .. lab_buckets - 1 },
      a_tot : { lab_bucket_size * c : c \in 0 .. lab_buckets - 1 },
      b_tot : { lab_bucket_size * c : c \in 0 .. lab_buckets - 1 },
      x_range : { << x_bucket_size * b, x_bucket_size * b >> : b \in 0 .. x_buckets - 1 },
      y_range : { << y_bucket_size * b, y_bucket_size * b >> : b \in 0 .. y_buckets - 1 },
      original_image : { nullptr }, pixel_count : { 1 } ]

InitKey ==
    /\ pc = "key"
    /\ key_arg \in KeyInputs \cup TupleInputs
    /\ key_ret = NoKey
    /\ hashTable = NoTable
    /\ hash_calls = 0
    /\ table_before = NoTable
    /\ input_image = nullptr
    /\ image = NoMat
    /\ labels = NoMat
    /\ superpixel_count = 0
    /\ pixel_count = NoArray
    /\ superpixels = NoArray
    /\ row = 0
    /\ col = 0
    /\ i = 0
    /\ match_counts = NoCounts
    /\ best_match_image_ptr = nullptr
    /\ max_matches = 0
    /\ kept = NoKept

KeyCall ==
    /\ pc = "key"
    /\ key_ret' = calculate_hash_key(key_arg)
    /\ pc' = "returned"
    /\ UNCHANGED << hashTable, hash_calls, table_before, input_image, image, labels,
                    superpixel_count, pixel_count, superpixels, row, col, queryVars,
                    key_arg, kept >>

NextKey == KeyCall

SpecKey == InitKey /\ [][NextKey]_vars

---------------------------------------------------------------------------
(* Reference definitions the properties are stated with *)

\* the place of a cell in row-major order
Index(m, cell) == cell[1] * m.cols + cell[2]

\* the cells the pass has visited when its loops stand at (r, c)
Visited(m, r, c) == { cell \in Cells(m.rows, m.cols) : Index(m, cell) < r * m.cols + c }

\* the cells among `cells` that carry the label sp
CellsOf(sp, cells) == { cell \in cells : labels.at[cell] = sp }

\* the first cnt cells of the region sp in row-major order
FirstCells(sp, cnt) ==
    LET all == CellsOf(sp, Cells(labels.rows, labels.cols))
    IN  { cell \in all :
            Cardinality({ d \in all : Index(labels, d) < Index(labels, cell) }) < cnt }

RECURSIVE SumChannel(_, _)
SumChannel(cells, ch) ==
    IF cells = {} THEN 0
    ELSE LET cell == CHOOSE x \in cells : TRUE
         IN  image.at[cell][ch] + SumChannel(cells \ { cell }, ch)

Least(S) == CHOOSE x \in S : \A y \in S : x <= y
Greatest(S) == CHOOSE x \in S : \A y \in S : x >= y

\* the record of the non-empty set of cells `cells` of the image img
RecordOf(cells, img) ==
    [ l_tot |-> SumChannel(cells, 1),
      a_tot |-> SumChannel(cells, 2),
      b_tot |-> SumChannel(cells, 3),
      x_range |-> << Least({ cell[2] : cell \in cells }), Greatest({ cell[2] : cell \in cells }) >>,
      y_range |-> << Least({ cell[1] : cell \in cells }), Greatest({ cell[1] : cell \in cells }) >>,
      original_image |-> img,
      pixel_count |-> Cardinality(cells) ]

Regions == 0 .. superpixel_count - 1

RECURSIVE SumPixelCounts(_)
SumPixelCounts(sps) ==
    IF sps = {} THEN 0
    ELSE LET sp == CHOOSE x \in sps : TRUE
         IN  superpixels[sp].pixel_count + SumPixelCounts(sps \ { sp })

\* the bucket of a key, empty when the table does not hold the key
Bucket(table, key) == IF key \in DOMAIN table THEN table[key] ELSE << >>

\* the records of the table that a Hash call has appended since table_before
Appended(key) ==
    SubSeq(hashTable[key], Len(Bucket(table_before, key)) + 1, Len(hashTable[key]))

\* the votes the query records below `upto` owe to the image X
RECURSIVE RefVotes(_, _)
RefVotes(X, upto) ==
    IF upto = 0 THEN 0
    ELSE LET key == calculate_hash_key(superpixels[upto - 1])
             b == Bucket(hashTable, key)
             here == IF key = NoKey THEN 0
                     ELSE Cardinality({ j \in 1 .. Len(b) : b[j].original_image = X })
         IN  here + RefVotes(X, upto - 1)

Votes(X) == IF X \in DOMAIN match_counts THEN match_counts[X] ELSE 0

Images == DatabaseImages \cup { QueryImage }

AggregationDone == pc \in { "hash", "query" } /\ row = labels.rows
VotingDone == (pc = "vote" /\ i = superpixel_count) \/ pc = "report"

---------------------------------------------------------------------------
(* Properties of calculate_hash_key, under SpecKey *)

\* C1: calculate_hash_key returns the sentinel -1 exactly when pixel_count is 0,
\* and otherwise a key k with 0 <= k < 16*16*16*10*10 = 409600, whatever the
\* colour sums and the ranges of the record are.
C1_KeyInRange ==
    pc = "returned" =>
        /\ (key_ret = -1) <=> (key_arg.pixel_count = 0)
        /\ key_arg.pixel_count > 0 => (0 <= key_ret /\ key_ret < 16 * 16 * 16 * 10 * 10)
        /\ key_ret < 0 => key_ret = -1

\* a record whose five axes all lie beyond the last bucket gets the largest key
C1_Witness ==
    /\ pc = "returned"
    /\ key_arg.pixel_count = 1
    /\ key_arg.l_tot = 9000 /\ key_arg.a_tot = 9000 /\ key_arg.b_tot = 9000
    /\ key_arg.x_range = << 9000, 9000 >> /\ key_arg.y_range = << 3000, 3000 >>
    /\ key_ret = 409599

\* the bucket of a channel: the c of 0..15 with 16*c <= tot/n < 16*(c+1), the
\* first bucket below and the last bucket above
RefColorBucket(tot, n) ==
    CHOOSE c \in 0 .. 15 :
        /\ c = 0 \/ 16 * c * n <= tot
        /\ c = 15 \/ tot < 16 * (c + 1) * n

\* the bucket of a midpoint (first + second) / 2 for buckets of `width`, `count`
\* of them: twice the midpoint is compared with twice the bucket's ends
RefCenterBucket(range, width, count) ==
    CHOOSE b \in 0 .. count - 1 :
        /\ b = 0 \/ 2 * width * b <= range[1] + range[2]
        /\ b = count - 1 \/ range[1] + range[2] < 2 * width * (b + 1)

RefKey(key) ==
    LET c1 == RefColorBucket(key.l_tot, key.pixel_count)
        c2 == RefColorBucket(key.a_tot, key.pixel_count)
        c3 == RefColorBucket(key.b_tot, key.pixel_count)
        bx == RefCenterBucket(key.x_range, 384, 10)
        by == RefCenterBucket(key.y_range, 216, 10)
    IN  ((((c1 * 16 + c2) * 16 + c3) * 10 + bx) * 10 + by)

\* C2 (violated: a sum of 2^24 or more is rounded by (float), and the float
\* average of 16777231 over 1048577 pixels is 16.0, not 15.999999):
\* for a record with pixel_count > 0 the key is the mixed-radix value
\* ((((c1*16 + c2)*16 + c3)*10 + bx)*10 + by) of the three channel averages in
\* buckets of 16 clamped into 0..15, the x midpoint in buckets of 384 and the
\* y midpoint in buckets of 216, both clamped into 0..9, in this order of axes.
C2_KeyIsMixedRadix ==
    (pc = "returned" /\ key_arg.pixel_count > 0) => key_ret = RefKey(key_arg)

\* where the float arithmetic is exact (sums below 2^24) the key is the
\* mixed-radix value of C2
KeyIsMixedRadixBelowFloatPrecision ==
    (pc = "returned" /\ key_arg.pixel_count > 0
        /\ key_arg.l_tot < 16777216 /\ key_arg.a_tot < 16777216 /\ key_arg.b_tot < 16777216)
            => key_ret = RefKey(key_arg)

---------------------------------------------------------------------------
(* Properties of the retrieval, under Spec *)

\* C3: while the voting loop runs and after it, the vote count of every image X
\* is the sum, over the query records processed whose key is not the sentinel,
\* of the number of records in the bucket of that key whose original_image is
\* X: one vote per colliding record, none for a record with the sentinel key,
\* and match_counts holds no entry without a vote.
C3_VotesPerCollidingRecord ==
    pc \in { "vote", "report" } =>
        /\ \A X \in Images : Votes(X) = RefVotes(X, i)
        /\ \A X \in DOMAIN match_counts : X \in Images /\ match_counts[X] >= 1

\* a query with one record without pixels and one record whose bucket holds
\* three records of the image 0: three votes from one query region
C3_Witness ==
    /\ VotingDone
    /\ superpixel_count = 2
    /\ \E sp \in Regions : superpixels[sp].pixel_count = 0
    /\ Votes(0) = 3

\* C4: after the max scan, a candidate whose total is strictly greater than
\* every other candidate's is the one returned, and a returned image has a
\* total > 0 that is >= the total of every other candidate.
C4_BestHasMostVotes ==
    pc = "report" =>
        /\ \A X \in DOMAIN match_counts :
             (\A Y \in DOMAIN match_counts \ { X } : match_counts[X] > match_counts[Y])
                 => best_match_image_ptr = X
        /\ best_match_image_ptr # nullptr =>
             /\ best_match_image_ptr \in DOMAIN match_counts
             /\ match_counts[best_match_image_ptr] > 0
             /\ \A Y \in DOMAIN match_counts :
                  match_counts[best_match_image_ptr] >= match_counts[Y]

\* two candidates, the one scanned second with strictly more votes
C4_Witness ==
    /\ pc = "report"
    /\ DOMAIN match_counts = { 0, 1 }
    /\ match_counts[1] > match_counts[0]
    /\ best_match_image_ptr = 1

\* the images with the most votes by the table and the query records
RefTied ==
    { X \in DatabaseImages :
        /\ RefVotes(X, superpixel_count) > 0
        /\ \A Y \in DatabaseImages :
             RefVotes(X, superpixel_count) >= RefVotes(Y, superpixel_count) }

\* C5: the result is a function of the table and of the query records: among
\* the images that share the largest vote total it is the one with the lowest
\* identifier, the first in the ascending order of the std::map.
C5_TieGoesToLowestImage ==
    (pc = "report" /\ RefTied # {}) => best_match_image_ptr = Least(RefTied)

\* two images with the same number of votes, more than one vote each
C5_Witness ==
    /\ pc = "report"
    /\ RefTied = { 0, 1 }
    /\ match_counts[0] = 2
    /\ best_match_image_ptr = 0

\* the query records whose key is a bucket of the table
Hits == { sp \in Regions :
            /\ calculate_hash_key(superpixels[sp]) # -1
            /\ calculate_hash_key(superpixels[sp]) \in DOMAIN hashTable }

\* the images that have a record in the table
Indexed ==
    UNION { { hashTable[k][j].original_image : j \in 1 .. Len(hashTable[k]) } :
            k \in DOMAIN hashTable }

\* C6: the retrieval reports no match (best_match_image_ptr is null) if and
\* only if no query record with a key other than the sentinel has its key in
\* the table; otherwise the result is an image that has records in the table.
C6_NoMatchIffNoVote ==
    pc = "report" =>
        /\ (best_match_image_ptr = nullptr) <=> (Hits = {})
        /\ (best_match_image_ptr = nullptr) <=> (match_counts = NoCounts)
        /\ best_match_image_ptr # nullptr => best_match_image_ptr \in Indexed

\* a table of two images under two different keys and a query record with
\* pixels whose key is neither: no match
C6_Witness ==
    /\ pc = "report"
    /\ Cardinality(DOMAIN hashTable) = 2
    /\ Indexed = { 0, 1 }
    /\ \E sp \in Regions : superpixels[sp].pixel_count > 0
    /\ best_match_image_ptr = nullptr

\* C10: a retrieval leaves hashTable as it was when the retrieval began: the
\* same keys, the same record sequence in every bucket, no empty bucket for an
\* absent key; and no record of the query image is ever in the table.
C10_RetrievalKeepsTable ==
    /\ pc \in { "query", "vote", "report" } => hashTable = table_before
    /\ QueryImage \notin Indexed

\* a finished retrieval with a query record whose key is absent from the
\* table, next to one whose key is present
C10_Witness ==
    /\ pc = "report"
    /\ \E sp \in Regions :
         /\ calculate_hash_key(superpixels[sp]) # -1
         /\ calculate_hash_key(superpixels[sp]) \notin DOMAIN hashTable
    /\ Hits # {}

---------------------------------------------------------------------------
(* Properties of Hash, under Spec *)

\* the regions of the running pass that have at least one cell in the grid
Occurring == { sp \in Regions : CellsOf(sp, Cells(labels.rows, labels.cols)) # {} }

\* C7: every record of hashTable has pixel_count > 0, no bucket has the
\* sentinel key -1, and every record sits in the bucket whose key is
\* calculate_hash_key of the record; a record appended by the running Hash
\* call is the record of the first cells of a region that occurs in the label
\* grid, and a region that does not occur has contributed none.
C7_OnlyIndexableRecords ==
    /\ -1 \notin DOMAIN hashTable
    /\ \A k \in DOMAIN hashTable : \A j \in 1 .. Len(hashTable[k]) :
         /\ hashTable[k][j].pixel_count > 0
         /\ calculate_hash_key(hashTable[k][j]) = k
    /\ pc = "hash" =>
         /\ \A k \in DOMAIN hashTable : \A j \in 1 .. Len(Appended(k)) :
              \E sp \in Occurring :
                  Appended(k)[j] = RecordOf(FirstCells(sp, Appended(k)[j].pixel_count),
                                            input_image)
         /\ \A sp \in Regions \ Occurring : superpixels[sp].pixel_count = 0

\* the end of a second Hash call whose label grid never uses the region 1 of
\* its two regions and which has appended a record to the table the first
\* call left
C7_Witness ==
    /\ pc = "hash"
    /\ row = labels.rows
    /\ hash_calls = 2
    /\ superpixel_count = 2
    /\ Occurring = { 0 }
    /\ table_before # NoTable
    /\ hashTable # table_before

---------------------------------------------------------------------------
(* Properties of the aggregation pass, under SpecAgg *)

\* C8: at every point of an aggregation pass (of Hash and of main) the
\* pixel_count of every record is the number of cells of its region visited so
\* far, so it grows by exactly 1 with each visited cell of the region and never
\* decreases; when every cell is visited it is the number of cells that carry
\* the label, and the counts of all records add up to rows * cols.
C8_PixelCountsCountCells ==
    pc \in { "hash", "query" } =>
        /\ \A sp \in Regions :
             superpixels[sp].pixel_count
                 = Cardinality(CellsOf(sp, Visited(labels, row, col)))
        /\ AggregationDone =>
             /\ \A sp \in Regions :
                  superpixels[sp].pixel_count
                      = Cardinality(CellsOf(sp, Cells(labels.rows, labels.cols)))
             /\ SumPixelCounts(Regions) = labels.rows * labels.cols

\* a finished pass over a 2 x 2 grid with a region of one cell and one of three
C8_Witness ==
    /\ AggregationDone
    /\ labels.rows = 2 /\ labels.cols = 2
    /\ superpixel_count = 2
    /\ superpixels[0].pixel_count = 1
    /\ superpixels[1].pixel_count = 3

\* C9: at every point of an aggregation pass, for every record with
\* pixel_count > 0, the box x_range x y_range contains the (col, row) of every
\* visited cell of the region and each of its four bounds is the coordinate of
\* such a cell; a record of exactly one pixel has x_min = x_max, y_min = y_max
\* and the colour of that pixel as its colour sums.
C9_TightBoundingBox ==
    pc \in { "hash", "query" } =>
        \A sp \in Regions : superpixels[sp].pixel_count > 0 =>
            LET seen == CellsOf(sp, Visited(labels, row, col))
                curr == superpixels[sp]
            IN  /\ \A cell \in seen :
                     /\ curr.x_range[1] <= cell[2] /\ cell[2] <= curr.x_range[2]
                     /\ curr.y_range[1] <= cell[1] /\ cell[1] <= curr.y_range[2]
                /\ \E cell \in seen : cell[2] = curr.x_range[1]
                /\ \E cell \in seen : cell[2] = curr.x_range[2]
                /\ \E cell \in seen : cell[1] = curr.y_range[1]
                /\ \E cell \in seen : cell[1] = curr.y_range[2]
                /\ curr.pixel_count = 1 =>
                     /\ curr.x_range[1] = curr.x_range[2]
                     /\ curr.y_range[1] = curr.y_range[2]
                     /\ \E cell \in seen :
                          << curr.l_tot, curr.a_tot, curr.b_tot >> = image.at[cell]

\* a finished pass with a region of the single cell (row 1, col 0) and a region
\* of the three other cells, whose box is the whole 2 x 2 grid
C9_Witness ==
    /\ AggregationDone
    /\ superpixel_count = 2
    /\ superpixels[0].pixel_count = 1
    /\ superpixels[0].x_range = << 0, 0 >> /\ superpixels[0].y_range = << 1, 1 >>
    /\ superpixels[0].l_tot = 10 /\ superpixels[0].a_tot = 200 /\ superpixels[0].b_tot = 40
    /\ superpixels[1].pixel_count = 3
    /\ superpixels[1].x_range = << 0, 1 >> /\ superpixels[1].y_range = << 0, 1 >>

---------------------------------------------------------------------------
(* Properties of a repeated Hash call, under SpecTwice *)

\* the records of the image X in a bucket
CountOf(bucket, X) == Cardinality({ j \in 1 .. Len(bucket) : bucket[j].original_image = X })

\* the images that have a record in a table
IndexedIn(table) ==
    UNION { { table[k][j].original_image : j \in 1 .. Len(table[k]) } : k \in DOMAIN table }

\* the votes the query records below `upto` owe to the image X by a table
RECURSIVE RefVotesIn(_, _, _)
RefVotesIn(table, X, upto) ==
    IF upto = 0 THEN 0
    ELSE LET key == calculate_hash_key(superpixels[upto - 1])
             here == IF key = NoKey THEN 0 ELSE CountOf(Bucket(table, key), X)
         IN  here + RefVotesIn(table, X, upto - 1)

\* the image a retrieval owes to a table: the lowest of the images with the
\* most votes, nullptr without a vote
RefWinnerIn(table) ==
    LET top == { X \in DatabaseImages :
                   /\ RefVotesIn(table, X, superpixel_count) > 0
                   /\ \A Y \in DatabaseImages :
                        RefVotesIn(table, X, superpixel_count)
                            >= RefVotesIn(table, Y, superpixel_count) }
    IN  IF top = {} THEN nullptr ELSE Least(top)

\* what the first of the two calls appended to the bucket of a key
Contribution(key) ==
    SubSeq(Bucket(kept.once, key), Len(Bucket(kept.before, key)) + 1,
           Len(Bucket(kept.once, key)))

\* the second of the two calls has finished its loops
TwiceDone == kept # NoKept /\ kept.again /\ ~(pc = "hash" /\ row < labels.rows)

\* the image hashed twice was not in the table before
OnlyTwice == kept.img \notin IndexedIn(kept.before)

\* the records of the query are the records the image contributed
OwnRegions ==
    /\ \E k \in DOMAIN kept.once : Contribution(k) # << >>
    /\ { [ superpixels[sp] EXCEPT !.original_image = kept.img ] :
           sp \in { r \in Regions : superpixels[r].pixel_count > 0 } }
         = UNION { { Contribution(k)[j] : j \in 1 .. Len(Contribution(k)) } :
                   k \in DOMAIN kept.once }

\* every bucket holds what it held after the first call, in the same order,
\* followed by a second copy of what the first call appended to it
SecondCopyAppended ==
    TwiceDone =>
        /\ DOMAIN hashTable = DOMAIN kept.once
        /\ \A k \in DOMAIN hashTable : hashTable[k] = kept.once[k] \o Contribution(k)

\* the image has twice the records in every bucket, and twice the votes
TwiceTheVotes ==
    (TwiceDone /\ OnlyTwice) =>
        /\ \A k \in DOMAIN hashTable :
             CountOf(hashTable[k], kept.img) = 2 * CountOf(kept.once[k], kept.img)
        /\ VotingDone =>
             Votes(kept.img) = 2 * RefVotesIn(kept.once, kept.img, superpixel_count)

\* C11 as stated (violated: an image hashed once with two regions in the bucket
\* of the only region of the image hashed twice has as many votes, and wins
\* the tie with the lower address):
\* Hash is not idempotent: a second call with the same arguments leaves in
\* every bucket the records of the first call, in order, followed by a second
\* copy of the records the image contributes; the image's vote total is twice
\* that after one insertion; and the image hashed twice wins a query made of
\* its own regions against a different image hashed once.
C11_TwiceInsertedWins ==
    /\ SecondCopyAppended
    /\ TwiceTheVotes
    /\ (pc = "report" /\ OnlyTwice /\ OwnRegions) => best_match_image_ptr = kept.img

\* C11 (amended): Hash is not idempotent: a second call with the same arguments
\* leaves in every bucket the records of the first call, in order, followed by
\* a second copy of the records the image contributes; the image's vote total
\* is twice that after one insertion; and whenever the image is the result of
\* the query made of its own regions by the table that holds it once, it is
\* the result by the table that holds it twice.
C11_TwiceInsertedKeepsWinning ==
    /\ SecondCopyAppended
    /\ TwiceTheVotes
    /\ (pc = "report" /\ RefWinnerIn(kept.once) = kept.img)
           => best_match_image_ptr = kept.img

\* the image 1 hashed twice after the image 0, both with a record in the bucket
\* of a query region: 1 has its two copies' votes and is the result
C11_Witness ==
    /\ pc = "report"
    /\ kept.img = 1
    /\ OnlyTwice /\ OwnRegions
    /\ 0 \in IndexedIn(kept.before)
    /\ Votes(0) = 1
    /\ Votes(1) = 2
    /\ RefVotesIn(kept.once, 1, superpixel_count) = 1
    /\ best_match_image_ptr = 1

---------------------------------------------------------------------------
(* Properties of Hash on label grids with labels outside the regions, under  *)
(* SpecAnyLabels                                                             *)

\* the cells whose label is no region of the call
InvalidCells ==
    { cell \in Cells(labels.rows, labels.cols) :
        labels.at[cell] \notin 0 .. superpixel_count - 1 }

\* the pass stands at such a cell or has gone past one
OffendingReached ==
    /\ pc \in { "hash", "stopped" }
    /\ \E cell \in InvalidCells : Index(labels, cell) <= row * labels.cols + col

\* C12 (violated: Hash has no range test, it appends each region when its count
\* is reached, and nothing is taken back):
\* when a cell of the label grid holds a region identifier outside
\* [0, superpixel_count), the pass does not go on past that cell, and from the
\* moment the cell is reached the table is what it was before the call: no
\* record of the image, also of regions completed before that cell, is in it.
C12_InvalidLabelAborts ==
    /\ OffendingReached => hashTable = table_before
    /\ ~(pc = "hash" /\ InvalidCells \cap Visited(labels, row, col) # {})

---------------------------------------------------------------------------
(* Properties of the query of a hashed image with itself, under SpecSelf *)

\* the query records with pixels
NonEmpty == { sp \in Regions : superpixels[sp].pixel_count > 0 }

\* the grids of the scenario: the upper half (10,10,10), the lower (200,200,200)
ScenarioA ==
    /\ labels.rows = 4 /\ labels.cols = 4
    /\ \A cell \in Cells(4, 4) :
         /\ labels.at[cell] = (IF cell[1] < 2 THEN 0 ELSE 1)
         /\ image.at[cell] = (IF cell[1] < 2 THEN << 10, 10, 10 >> ELSE << 200, 200, 200 >>)

\* C13: when one Hash call of main has built the table from a single image, the
\* retrieval whose label grid and colour grid are the image's returns the
\* image: the record of every query region with pixels is, but for its image,
\* a record of the bucket of its key, so every such region collides and the
\* votes of the image are at least the number of these regions (exactly 2 for
\* the 4 x 4 grid of two 8-pixel regions (10,10,10) and (200,200,200)) and more
\* than the votes of every other candidate.
C13_SelfQueryReturnsImage ==
    (pc = "report" /\ kept # NoKept) =>
        /\ best_match_image_ptr = kept.img
        /\ \A sp \in NonEmpty :
             LET key == calculate_hash_key(superpixels[sp])
                 b == Bucket(hashTable, key)
             IN  \E j \in 1 .. Len(b) :
                     b[j] = [ superpixels[sp] EXCEPT !.original_image = kept.img ]
        /\ NonEmpty # {}
        /\ Votes(kept.img) >= Cardinality(NonEmpty)
        /\ \A Y \in Images \ { kept.img } : Votes(kept.img) > Votes(Y)
        /\ ScenarioA => (Votes(kept.img) = 2 /\ superpixels[0].pixel_count = 8
                                             /\ superpixels[1].pixel_count = 8)

\* the scenario: the image 1 is returned with two votes
C13_Witness ==
    /\ pc = "report"
    /\ ScenarioA
    /\ kept.img = 1
    /\ Cardinality(DOMAIN hashTable) = 2
    /\ match_counts[1] = 2
    /\ best_match_image_ptr = 1

---------------------------------------------------------------------------
(* Properties of the finalize-and-insert step of Hash, under SpecAgg *)

\* the places of the records the running call has appended
AppendedAt ==
    UNION { { << k, j >> : j \in 1 .. Len(Appended(k)) } : k \in DOMAIN hashTable }

\* the regions whose running count has reached their expected count
Reached ==
    { sp \in Regions :
        /\ pixel_count[sp] >= 1
        /\ Cardinality(CellsOf(sp, Visited(labels, row, col))) >= pixel_count[sp] }

\* the record of a region at the cell that brought it to its expected count
Owed(sp) == RecordOf(FirstCells(sp, pixel_count[sp]), input_image)

\* the expected counts are the numbers of cells of the labels
TrueCounts ==
    \A sp \in Regions :
        pixel_count[sp] = Cardinality(CellsOf(sp, Cells(labels.rows, labels.cols)))

\* the regions all of whose cells are visited, one cell at least
Complete ==
    { sp \in Regions :
        /\ CellsOf(sp, Cells(labels.rows, labels.cols)) # {}
        /\ CellsOf(sp, Cells(labels.rows, labels.cols)) \subseteq Visited(labels, row, col) }

\* C14: at every point of a Hash call the records it has appended are, one for
\* one, the records of the regions whose count has reached the expected count,
\* each as it was at the cell that reached it: a region is appended at most once
\* per call whatever the expected counts are.  When the expected counts are the
\* true counts, the appended records are, one for one, the records of the
\* regions whose last cell in row-major order is visited, each with the sums,
\* the pixel_count and the box of all cells of its region, also while later
\* cells of other regions are visited; at the end of the pass there is exactly
\* one record per region with a non-zero count and none for the others.
C14_AppendedAtLastCell ==
    pc = "hash" =>
        /\ Cardinality(AppendedAt) = Cardinality(Reached)
        /\ \A v \in { Appended(p[1])[p[2]] : p \in AppendedAt } \cup { Owed(sp) : sp \in Reached } :
             Cardinality({ p \in AppendedAt : Appended(p[1])[p[2]] = v })
                 = Cardinality({ sp \in Reached : Owed(sp) = v })
        /\ TrueCounts =>
             /\ Reached = Complete
             /\ \A sp \in Complete :
                  \E p \in AppendedAt :
                      Appended(p[1])[p[2]]
                          = RecordOf(CellsOf(sp, Cells(labels.rows, labels.cols)), input_image)
             /\ row = labels.rows =>
                  Cardinality(AppendedAt)
                      = Cardinality({ sp \in Regions : pixel_count[sp] # 0 })

\* a 2 x 2 grid with true counts whose region 0 is the upper row: its record of
\* two pixels is in the table while the cell (1, 1) of the region 1 is still to
\* be visited
C14_Witness ==
    /\ pc = "hash"
    /\ TrueCounts
    /\ labels.rows = 2 /\ labels.cols = 2
    /\ row = 1 /\ col = 1
    /\ Complete = { 0 }
    /\ \E p \in AppendedAt : Appended(p[1])[p[2]].pixel_count = 2
    /\ Cardinality(AppendedAt) = 1
    /\ superpixels[1].pixel_count = 1

---------------------------------------------------------------------------
(* Properties of the combination of the buckets, under SpecKey *)

\* the five clamped bucket indices of a record (lines 51-62)
Buckets(key) ==
    << Clamp(AvgBucket(key.l_tot, key.pixel_count, lab_bucket_size), 1),
       Clamp(AvgBucket(key.a_tot, key.pixel_count, lab_bucket_size), 2),
       Clamp(AvgBucket(key.b_tot, key.pixel_count, lab_bucket_size), 3),
       Clamp(CenterBucket(key.x_range, x_bucket_size), 4),
       Clamp(CenterBucket(key.y_range, y_bucket_size), 5) >>

\* the digits of a key in the radices 16, 16, 16, 10, 10
Digits(k) ==
    << k \div 25600, (k \div 1600) % 16, (k \div 100) % 16, (k \div 10) % 10, k % 10 >>

\* a record of one pixel with the colour sum `tot` on the three channels
Probe(tot, x, y) ==
    [ l_tot |-> tot, a_tot |-> tot, b_tot |-> tot, x_range |-> << x, x >>,
      y_range |-> << y, y >>, original_image |-> nullptr, pixel_count |-> 1 ]

\* records to compare with: some share all five buckets with a record of the
\* inputs, some all but one
KeyProbes ==
    { Probe(0, 0, 0), Probe(15, 383, 215), Probe(16, 0, 0), Probe(0, 384, 0),
      Probe(0, 0, 216), Probe(255, 3839, 2159), Probe(255, 3839, 1943),
      [ Probe(0, 0, 0) EXCEPT !.b_tot = 16 ], [ Probe(0, 0, 0) EXCEPT !.a_tot = 16 ],
      [ Probe(32, 0, 0) EXCEPT !.pixel_count = 2 ] }
ProbeKey == [ p \in KeyProbes |-> calculate_hash_key(p) ]
ProbeBuckets == [ p \in KeyProbes |-> Buckets(p) ]

\* C15: the key of a record with pixel_count > 0 determines its five clamped
\* bucket indices (they are the digits of the key), so two such records have
\* the same key if and only if they have the same five indices, and the
\* 16*16*16*10*10 = 409600 tuples of indices have 409600 different keys, the
\* numbers 0 .. 409599 (the inputs hold one record for every tuple).
C15_KeyDeterminesBuckets ==
    (pc = "returned" /\ key_arg.pixel_count > 0) =>
        LET buckets == Buckets(key_arg)
        IN  /\ Digits(key_ret) = buckets
            /\ key_ret \in 0 .. 409599
            /\ key_arg \in TupleInputs =>
                 buckets = << key_arg.l_tot \div 16, key_arg.a_tot \div 16,
                              key_arg.b_tot \div 16, key_arg.x_range[1] \div 384,
                              key_arg.y_range[1] \div 216 >>
            /\ \A p \in KeyProbes : (ProbeKey[p] = key_ret) <=> (ProbeBuckets[p] = buckets)

\* the record of the last bucket on every axis has the last key, which it
\* shares with a different record of the same buckets and not with the record
\* that differs in the y bucket only
C15_Witness ==
    /\ pc = "returned"
    /\ key_arg = Probe(240, 3456, 1944)
    /\ key_ret = 409599
    /\ ProbeKey[Probe(255, 3839, 2159)] = key_ret
    /\ ProbeKey[Probe(255, 3839, 1943)] # key_ret

=============================================================================
